---- MODULE Spec2Model ----
(***************************************************************************)
(* Model of notedown's command line driver (notedown/main.py): argument    *)
(* parsing, format detection and resolution, and the                       *)
(* [knit] -> read -> [run] -> write pipeline.                               *)
(*                                                                         *)
(* Text is modelled as a sequence of tokens.  In a file name the tokens    *)
(* "." (os.extsep) and "/" (os.sep) are single characters and every other  *)
(* token is a run of characters containing neither.  In other text the     *)
(* empty string is the empty sequence and "\n" is a token of its own.      *)
(***************************************************************************)
EXTENDS Integers, Sequences, FiniteSets, TLC

VARIABLES
    argv,           \* the command line as given (never changes)
    args,           \* the argparse namespace (mutated by cli)
    pc,             \* position in cli()
    files,          \* open/closed state of each file handle
    input_file,     \* the stream the reader will be given
    template_file,
    informat,
    outformat,
    reader,
    writer,
    notebook,       \* the notebook object produced by reader.read
    written,        \* what writer.write emitted to the output stream
    log,            \* pipeline steps executed so far, in order
    err,            \* the exception that ended cli(), if any
    filename,       \* ftdetect's argument (format registry specification)
    detected        \* ftdetect's result  (format registry specification)

vars == <<argv, args, pc, files, input_file, template_file, informat,
          outformat, reader, writer, notebook, written, log, err,
          filename, detected>>

----------------------------------------------------------------------------
(* Bounds *)

MaxNameLen == 3     \* tokens in a file name handed to ftdetect
MaxPrecode == 1     \* number of strings given to --precode
MaxCells == 1       \* cells in the input document

----------------------------------------------------------------------------
(* Values *)

None == "None"

\* truth value of an optional string, as Python's `if v:` / `v or w` see it
Truthy(v) == v \notin {None, ""}

Or(a, b) == IF Truthy(a) THEN a ELSE b

SeqsUpTo(S, n) == UNION {[1..k -> S] : k \in 0..n}

RECURSIVE Join(_, _)
Join(sep, strs) ==
    IF strs = <<>> THEN <<>>
    ELSE IF Len(strs) = 1 THEN strs[1]
    ELSE strs[1] \o sep \o Join(sep, Tail(strs))

markdown_template == "templates/markdown.tpl"
markdown_figure_template == "templates/markdown_outputs.tpl"

----------------------------------------------------------------------------
(* ftdetect *)

Rfind(p, t) ==
    IF \E i \in 1..Len(p) : p[i] = t
    THEN CHOOSE i \in 1..Len(p) : p[i] = t /\ \A j \in (i+1)..Len(p) : p[j] # t
    ELSE 0

RECURSIVE SkipLeadingDots(_, _, _)
SkipLeadingDots(p, filenameIndex, dotIndex) ==
    IF filenameIndex < dotIndex
    THEN IF p[filenameIndex] # "."
         THEN <<SubSeq(p, 1, dotIndex - 1), SubSeq(p, dotIndex, Len(p))>>
         ELSE SkipLeadingDots(p, filenameIndex + 1, dotIndex)
    ELSE <<p, <<>>>>

splitext(p) ==
    LET sepIndex == Rfind(p, "/")
        dotIndex == Rfind(p, ".")
    IN  IF dotIndex > sepIndex
        THEN SkipLeadingDots(p, sepIndex + 1, dotIndex)
        ELSE <<p, <<>>>>

md_exts_no_Rmd ==
    {<<".", "md">>, <<".", "markdown">>, <<".", "mkd">>, <<".", "mdown">>,
     <<".", "mkdn">>}

md_exts ==
    {<<".", "md">>, <<".", "markdown">>, <<".", "mkd">>, <<".", "mdown">>,
     <<".", "mkdn">>, <<".", "Rmd">>}

nb_exts == {<<".", "ipynb">>}

ftdetect(name) ==
    LET extension == splitext(name)[2]
    IN  IF extension \in md_exts THEN "markdown"
        ELSE IF extension \in nb_exts THEN "notebook"
        ELSE None

----------------------------------------------------------------------------
(* Notebook model, readers, writers and external collaborators *)

MarkdownCell == [cell_type |-> "markdown", source |-> <<"intro">>, outputs |-> <<>>]
CodeCell == [cell_type |-> "code", source |-> <<"print(1)">>, outputs |-> <<"1">>]

Docs == SeqsUpTo({MarkdownCell, CodeCell}, MaxCells)

ClearOutputs(cells) ==
    [i \in 1..Len(cells) |-> [cells[i] EXCEPT !.outputs = <<>>]]

\* MarkdownReader(precode=..., magic=...).read(stream)
MarkdownReader_read(kwargs, content) ==
    (IF kwargs.precode # <<>>
     THEN <<[cell_type |-> "code", source |-> kwargs.precode, outputs |-> <<>>]>>
     ELSE <<>>)
    \o ClearOutputs(content)

\* JSONReader().read(stream)
JSONReader_read(content) == content

reader_read(r, stream) ==
    IF r.cls = "MarkdownReader"
    THEN MarkdownReader_read(r.kwargs, stream.content)
    ELSE JSONReader_read(stream.content)

\* NotebookRunner(notebook).run_notebook(): outputs attached to code cells
run_notebook(nb) ==
    [i \in 1..Len(nb) |->
        IF nb[i].cell_type = "code"
        THEN [nb[i] EXCEPT !.outputs = <<"result">>]
        ELSE nb[i]]

RECURSIVE Render(_, _)
Render(nb, with_outputs) ==
    IF nb = <<>> THEN <<>>
    ELSE <<[kind |-> "source", text |-> nb[1].source]>>
         \o (IF with_outputs
             THEN [i \in 1..Len(nb[1].outputs) |->
                      [kind |-> "output", text |-> <<nb[1].outputs[i]>>]]
             ELSE <<>>)
         \o Render(Tail(nb), with_outputs)

\* MarkdownWriter(template_file, strip_outputs, write_outputs=...).write(nb, op)
MarkdownWriter_write(w, nb) ==
    LET strip_outputs == w.args[2]
        write_outputs == w.kwargs.write_outputs
    IN  Render(nb, ~strip_outputs /\ write_outputs)

\* JSONWriter(strip_outputs).write(nb, op)
JSONWriter_write(w, nb) ==
    LET strip_outputs == w.args[1]
    IN  Render(nb, ~strip_outputs)

writer_write(w, nb) ==
    IF w.cls = "MarkdownWriter"
    THEN [format |-> "markdown", items |-> MarkdownWriter_write(w, nb)]
    ELSE [format |-> "notebook", items |-> JSONWriter_write(w, nb)]

\* Knitr().knit(input_file, opts_chunk=...): a new stream holding the
\* rewritten text; the stream it was given is left as it is
knit(stream, opts_chunk) ==
    [handle |-> "knit", name |-> <<"knitr", ".", "md">>,
     content |-> stream.content, isatty |-> FALSE]

----------------------------------------------------------------------------
(* cli(): argument parsing and configuration *)

NoPath == <<>>      \* the positional argument / --output was not given

\* parser.parse_args(): the namespace built from the command line
parse_args(av) ==
    [input_file |-> [handle |-> "input",
                     name |-> IF av.input_file = NoPath
                              THEN <<"<stdin>">> ELSE av.input_file,
                     content |-> av.doc,
                     isatty |-> av.input_file = NoPath /\ av.isatty],
     output |-> [handle |-> "output",
                 name |-> IF av.output = NoPath
                          THEN <<"<stdout>">> ELSE av.output],
     informat |-> av.from,
     outformat |-> av.to,
     reverse |-> av.reverse,
     run |-> av.run,
     strip_outputs |-> av.strip,
     precode |-> av.precode,
     knit |-> IF av.knit = <<>> THEN None
              ELSE IF Len(av.knit) = 1 THEN "eval=FALSE"
              ELSE av.knit[2],
     rmagic |-> av.rmagic,
     magic |-> ~av.nomagic,
     examples |-> av.examples,
     figures |-> av.figures,
     template |-> av.template]

prepend_rmagic(a) ==
    IF a.rmagic
    THEN [a EXCEPT !.precode = <<<<"%load_ext rmagic">>>> \o @]
    ELSE a

\* if args.rmagic: args.precode.append(r"%load_ext rmagic")
append_rmagic(a) ==
    IF a.rmagic
    THEN [a EXCEPT !.precode = Append(@, <<"%load_ext rmagic">>)]
    ELSE a

select_template(a) ==
    Or(a.template,
       IF a.figures THEN markdown_figure_template ELSE markdown_template)

readers(a) ==
    [notebook |-> [cls |-> "JSONReader", args |-> <<>>, kwargs |-> <<>>],
     markdown |-> [cls |-> "MarkdownReader", args |-> <<>>,
                   kwargs |-> [precode |-> Join(<<"\n">>, a.precode),
                               magic |-> a.magic]]]

writers_figures_first(a, tpl) ==
    [notebook |-> [cls |-> "JSONWriter", args |-> <<a.strip_outputs>>,
                   kwargs |-> <<>>],
     markdown |-> [cls |-> "MarkdownWriter",
                   args |-> <<tpl, a.strip_outputs /\ ~a.figures>>,
                   kwargs |-> [write_outputs |-> a.figures]]]

writers(a, tpl) ==
    [notebook |-> [cls |-> "JSONWriter", args |-> <<a.strip_outputs>>,
                   kwargs |-> <<>>],
     markdown |-> [cls |-> "MarkdownWriter",
                   args |-> <<tpl, a.strip_outputs>>,
                   kwargs |-> [write_outputs |-> a.figures]]]

apply_reverse_unless_explicit(a) ==
    IF a.reverse
    THEN [a EXCEPT !.informat = Or(@, "notebook"), !.outformat = Or(@, "markdown")]
    ELSE a

\* if args.reverse: args.informat = 'notebook'; args.outformat = 'markdown'
apply_reverse(a) ==
    IF a.reverse
    THEN [a EXCEPT !.informat = "notebook", !.outformat = "markdown"]
    ELSE a

resolve_informat_extension_first(a) ==
    Or(ftdetect(a.input_file.name), Or(a.informat, "markdown"))

resolve_informat(a) ==
    Or(a.informat, Or(ftdetect(a.input_file.name), "markdown"))

resolve_outformat_paired(a) ==
    Or(a.outformat,
       Or(ftdetect(a.output.name),
          IF resolve_informat(a) = "notebook" THEN "markdown" ELSE "notebook"))

resolve_outformat(a) ==
    Or(a.outformat, Or(ftdetect(a.output.name), "notebook"))

----------------------------------------------------------------------------
(* cli(): the steps *)

NoArgs == <<>>
NoStream == [handle |-> None, name |-> <<>>, content |-> <<>>, isatty |-> FALSE]
NoObject == [cls |-> None, args |-> <<>>, kwargs |-> <<>>]
NothingWritten == [format |-> None, items |-> <<>>]

Err(kind, message) == [kind |-> kind, message |-> message]
NoError == Err(None, "")

\* the message text of run()'s except clause (its backquotes written as ')
InstallHint == "You need runipy installed to run notebooks!try 'pip install runipy'"

\* raise('...'): the operand is a str, not an exception, and the interpreter
\* raises a TypeError of its own in its place
raise(message) ==
    Err("TypeError",
        "exceptions must be old-style classes or derived from BaseException, not str")

Step(op, arg, ok) == [op |-> op, arg |-> arg, ok |-> ok]

\* leaving the `with input_file as ip, args.output as op` block closes both
with_exit(f, stream) ==
    [f EXCEPT ![stream.handle] = "closed", !["output"] = "closed"]

ParseArgs ==
    /\ pc = "parse_args"
    /\ args' = parse_args(argv)
    /\ files' = [input |-> "open", output |-> "open", knit |-> "unopened"]
    /\ pc' = "parsed"
    /\ UNCHANGED <<argv, input_file, template_file, informat, outformat,
                   reader, writer, notebook, written, log, err,
                   filename, detected>>

ExamplesExit ==
    /\ pc = "parsed"
    /\ args.examples
    /\ pc' = "exit"
    /\ err' = Err("SystemExit", "")
    /\ UNCHANGED <<argv, args, files, input_file, template_file, informat,
                   outformat, reader, writer, notebook, written, log,
                   filename, detected>>

HelpExit ==
    /\ pc = "parsed"
    /\ ~args.examples
    /\ args.input_file.isatty
    /\ pc' = "exit"
    /\ err' = Err("SystemExit", "")
    /\ UNCHANGED <<argv, args, files, input_file, template_file, informat,
                   outformat, reader, writer, notebook, written, log,
                   filename, detected>>

PastEarlyExits ==
    /\ pc = "parsed"
    /\ ~args.examples
    /\ ~args.input_file.isatty

Knit ==
    /\ PastEarlyExits
    /\ Truthy(args.knit)
    /\ input_file' = knit(args.input_file, args.knit)
    /\ files' = [files EXCEPT !.knit = "open"]
    /\ log' = Append(log, Step("knit", args.knit, TRUE))
    /\ pc' = "configure"
    /\ UNCHANGED <<argv, args, template_file, informat, outformat, reader,
                   writer, notebook, written, err, filename, detected>>

KnitFail ==
    /\ PastEarlyExits
    /\ Truthy(args.knit)
    /\ log' = Append(log, Step("knit", args.knit, FALSE))
    /\ err' = Err("KnitError", "")
    /\ pc' = "failed"
    /\ UNCHANGED <<argv, args, files, input_file, template_file, informat,
                   outformat, reader, writer, notebook, written,
                   filename, detected>>

NoKnit ==
    /\ PastEarlyExits
    /\ ~Truthy(args.knit)
    /\ input_file' = args.input_file
    /\ pc' = "configure"
    /\ UNCHANGED <<argv, args, files, template_file, informat, outformat,
                   reader, writer, notebook, written, log, err,
                   filename, detected>>

Configure ==
    /\ pc = "configure"
    /\ LET a1 == append_rmagic(args)
           tpl == select_template(a1)
           rs == readers(a1)
           ws == writers(a1, tpl)
           a2 == apply_reverse(a1)
           inf == resolve_informat(a2)
           outf == resolve_outformat(a2)
       IN  /\ args' = a2
           /\ template_file' = tpl
           /\ informat' = inf
           /\ outformat' = outf
           /\ reader' = rs[inf]
           /\ writer' = ws[outf]
    /\ pc' = "read"
    /\ UNCHANGED <<argv, files, input_file, notebook, written, log, err,
                   filename, detected>>

Read_never_runs ==
    /\ pc = "read"
    /\ notebook' = reader_read(reader, input_file)
    /\ log' = Append(log, Step("read", input_file.handle, TRUE))
    /\ pc' = "write"
    /\ UNCHANGED <<argv, args, files, input_file, template_file, informat,
                   outformat, reader, writer, written, err,
                   filename, detected>>

Read ==
    /\ pc = "read"
    /\ notebook' = reader_read(reader, input_file)
    /\ log' = Append(log, Step("read", input_file.handle, TRUE))
    /\ pc' = IF args.run THEN "run" ELSE "write"
    /\ UNCHANGED <<argv, args, files, input_file, template_file, informat,
                   outformat, reader, writer, written, err,
                   filename, detected>>

ReadFail ==
    /\ pc = "read"
    /\ log' = Append(log, Step("read", input_file.handle, FALSE))
    /\ files' = with_exit(files, input_file)
    /\ err' = Err("ReadError", "")
    /\ pc' = "failed"
    /\ UNCHANGED <<argv, args, input_file, template_file, informat,
                   outformat, reader, writer, notebook, written,
                   filename, detected>>

\* run(notebook) with runipy importable
Run ==
    /\ pc = "run"
    /\ notebook' = run_notebook(notebook)
    /\ log' = Append(log, Step("run", "runner", TRUE))
    /\ pc' = "write"
    /\ UNCHANGED <<argv, args, files, input_file, template_file, informat,
                   outformat, reader, writer, written, err,
                   filename, detected>>

\* run(notebook) with runipy missing: the import fails and the except
\* clause runs
RunImportError ==
    /\ pc = "run"
    /\ log' = Append(log, Step("run", "ImportError", FALSE))
    /\ files' = with_exit(files, input_file)
    /\ err' = raise(InstallHint)
    /\ pc' = "failed"
    /\ UNCHANGED <<argv, args, input_file, template_file, informat,
                   outformat, reader, writer, notebook, written,
                   filename, detected>>

\* run(notebook) with runipy importable and the runner failing
RunFail ==
    /\ pc = "run"
    /\ log' = Append(log, Step("run", "runner", FALSE))
    /\ files' = with_exit(files, input_file)
    /\ err' = Err("RunError", "")
    /\ pc' = "failed"
    /\ UNCHANGED <<argv, args, input_file, template_file, informat,
                   outformat, reader, writer, notebook, written,
                   filename, detected>>

Write ==
    /\ pc = "write"
    /\ written' = writer_write(writer, notebook)
    /\ log' = Append(log, Step("write", args.output.handle, TRUE))
    /\ files' = with_exit(files, input_file)
    /\ pc' = "done"
    /\ UNCHANGED <<argv, args, input_file, template_file, informat,
                   outformat, reader, writer, notebook, err,
                   filename, detected>>

WriteFail ==
    /\ pc = "write"
    /\ log' = Append(log, Step("write", args.output.handle, FALSE))
    /\ files' = with_exit(files, input_file)
    /\ err' = Err("WriteError", "")
    /\ pc' = "failed"
    /\ UNCHANGED <<argv, args, input_file, template_file, informat,
                   outformat, reader, writer, notebook, written,
                   filename, detected>>

Next ==
    \/ ParseArgs
    \/ ExamplesExit
    \/ HelpExit
    \/ Knit
    \/ KnitFail
    \/ NoKnit
    \/ Configure
    \/ Read
    \/ ReadFail
    \/ Run
    \/ RunImportError
    \/ RunFail
    \/ Write
    \/ WriteFail

----------------------------------------------------------------------------
(* Command lines *)

Formats == {"notebook", "markdown"}

notes_md == <<"notes", ".", "md">>
notes_ipynb == <<"notes", ".", "ipynb">>
notes_txt == <<"notes", ".", "txt">>
out_md == <<"out", ".", "md">>
out_ipynb == <<"out", ".", "ipynb">>
out_txt == <<"out", ".", "txt">>

\* --knit absent, --knit, --knit '', --knit eval=TRUE
KnitArgs == {<<>>, <<"--knit">>, <<"--knit", "">>, <<"--knit", "eval=TRUE">>}

\* the strings --precode can be given: '' and 'import numpy as np'
PrecodeStrings == {<<>>, <<"import numpy as np">>}

InitState(av) ==
    /\ argv = av
    /\ args = NoArgs
    /\ pc = "parse_args"
    /\ files = [input |-> "unopened", output |-> "unopened", knit |-> "unopened"]
    /\ input_file = NoStream
    /\ template_file = None
    /\ informat = None
    /\ outformat = None
    /\ reader = NoObject
    /\ writer = NoObject
    /\ notebook = <<>>
    /\ written = NothingWritten
    /\ log = <<>>
    /\ err = NoError
    /\ filename = <<>>
    /\ detected = None

\* command lines that vary the pipeline options
PipelineArgv ==
    [input_file : {NoPath, notes_md, notes_ipynb},
     isatty : BOOLEAN,
     output : {NoPath, out_md},
     from : Formats \cup {None},
     to : Formats \cup {None},
     reverse : BOOLEAN,
     run : BOOLEAN,
     strip : {FALSE},
     precode : {<<>>},
     knit : KnitArgs,
     rmagic : {FALSE},
     nomagic : {FALSE},
     examples : BOOLEAN,
     figures : {FALSE},
     template : {None},
     doc : {<<MarkdownCell, CodeCell>>}]

Init == \E av \in PipelineArgv : InitState(av)

Spec == Init /\ [][Next]_vars

\* command lines that vary the format options and the file names
FormatsArgv ==
    [input_file : {NoPath, notes_md, notes_ipynb, notes_txt},
     isatty : BOOLEAN,
     output : {NoPath, out_md, out_ipynb, out_txt},
     from : Formats \cup {None},
     to : Formats \cup {None},
     reverse : BOOLEAN,
     run : BOOLEAN,
     strip : {FALSE},
     precode : {<<>>},
     knit : {<<>>, <<"--knit">>},
     rmagic : {FALSE},
     nomagic : {FALSE},
     examples : BOOLEAN,
     figures : {FALSE},
     template : {None},
     doc : {<<MarkdownCell, CodeCell>>}]

InitFormats == \E av \in FormatsArgv : InitState(av)

SpecFormats == InitFormats /\ [][Next]_vars

\* command lines that vary the reader and writer options and the document
RenderArgv ==
    [input_file : {NoPath, notes_md},
     isatty : BOOLEAN,
     output : {NoPath},
     from : Formats \cup {None},
     to : Formats \cup {None},
     reverse : BOOLEAN,
     run : BOOLEAN,
     strip : BOOLEAN,
     precode : SeqsUpTo(PrecodeStrings, MaxPrecode),
     knit : {<<>>, <<"--knit">>},
     rmagic : BOOLEAN,
     nomagic : BOOLEAN,
     examples : BOOLEAN,
     figures : BOOLEAN,
     template : {None, "custom.tpl"},
     doc : Docs]

InitRender == \E av \in RenderArgv : InitState(av)

SpecRender == InitRender /\ [][Next]_vars

----------------------------------------------------------------------------
(* Format registry on its own: ftdetect applied to arbitrary file names *)

NameTokens ==
    {".", "/", "notes", "md", "MD", "markdown", "mkd", "mdown", "mkdn",
     "Rmd", "rmd", "ipynb", "txt"}

InitFt ==
    /\ filename \in SeqsUpTo(NameTokens, MaxNameLen)
    /\ detected = None
    /\ pc = "ftdetect"
    /\ argv = NoArgs
    /\ args = NoArgs
    /\ files = [input |-> "unopened", output |-> "unopened", knit |-> "unopened"]
    /\ input_file = NoStream
    /\ template_file = None
    /\ informat = None
    /\ outformat = None
    /\ reader = NoObject
    /\ writer = NoObject
    /\ notebook = <<>>
    /\ written = NothingWritten
    /\ log = <<>>
    /\ err = NoError

Detect ==
    /\ pc = "ftdetect"
    /\ detected' = ftdetect(filename)
    /\ pc' = "detected"
    /\ UNCHANGED <<argv, args, files, input_file, template_file, informat,
                   outformat, reader, writer, notebook, written, log, err,
                   filename>>

NextFt == Detect

SpecFt == InitFt /\ [][NextFt]_vars

----------------------------------------------------------------------------
(* Properties *)

\* reader and writer have been selected and constructed (cli line 198 passed)
Configured == reader.cls # None

\* name has extension ext: ext is the tail of name that starts at the last
\* "." of the last path component, and that component has a character
\* other than "." before it
HasExtension(name, ext) ==
    LET n == Len(name) - Len(ext)
    IN  /\ n >= 1
        /\ SubSeq(name, n + 1, Len(name)) = ext
        /\ \E j \in 1..n :
              /\ name[j] \notin {".", "/"}
              /\ \A k \in j..n : name[k] # "/"

MarkdownExtensions == {"md", "markdown", "mkd", "mdown", "mkdn", "Rmd"}

\* C2: ftdetect returns 'markdown' exactly for the extensions .md .markdown
\* .mkd .mdown .mkdn .Rmd (case-sensitively), 'notebook' exactly for .ipynb,
\* and None for every other or absent extension; nothing else changes.
C2_FtdetectTable ==
    pc = "detected" =>
        /\ detected = "markdown" <=>
              \E e \in MarkdownExtensions : HasExtension(filename, <<".", e>>)
        /\ detected = "notebook" <=> HasExtension(filename, <<".", "ipynb">>)
        /\ detected \in {"markdown", "notebook", None}
        /\ <<argv, args, files, written, log, err>>
             = <<NoArgs, NoArgs,
                 [input |-> "unopened", output |-> "unopened", knit |-> "unopened"],
                 NothingWritten, <<>>, NoError>>

C2_Witness ==
    /\ pc = "detected"
    /\ filename = <<"notes", ".", "MD">>
    /\ detected = None

\* C1: without --reverse the input format is --from, else ftdetect of the
\* input file name, else 'markdown'; the output format is --to, else
\* ftdetect of the output file name, else 'notebook'; both are always one
\* of the two formats.
C1_Resolution ==
    (Configured /\ ~argv.reverse) =>
        /\ informat = (IF argv.from # None THEN argv.from
                       ELSE IF ftdetect(args.input_file.name) # None
                            THEN ftdetect(args.input_file.name)
                            ELSE "markdown")
        /\ outformat = (IF argv.to # None THEN argv.to
                        ELSE IF ftdetect(args.output.name) # None
                             THEN ftdetect(args.output.name)
                             ELSE "notebook")
        /\ informat \in Formats
        /\ outformat \in Formats

C1_Witness ==
    /\ Configured
    /\ ~argv.reverse
    /\ argv.from = "notebook"
    /\ argv.input_file = notes_md
    /\ argv.to = None
    /\ argv.output = out_txt
    /\ informat = "notebook"
    /\ outformat = "notebook"

\* C4: with --reverse the input format is 'notebook' and the output format
\* 'markdown' (JSONReader, MarkdownWriter) whatever else is given.
C4_Reverse ==
    (Configured /\ argv.reverse) =>
        /\ informat = "notebook"
        /\ outformat = "markdown"
        /\ reader.cls = "JSONReader"
        /\ writer.cls = "MarkdownWriter"

C4_Witness ==
    /\ Configured
    /\ argv.reverse
    /\ argv.from = "markdown"
    /\ argv.to = "notebook"
    /\ argv.input_file = notes_md
    /\ argv.output = out_ipynb
    /\ reader.cls = "JSONReader"

NoExplicitTo == argv.to = None /\ ~argv.reverse

\* C5 as stated: notes.md with no --to and an unresolved output name gives
\* notebook output, and notes.ipynb read as a notebook with no --to and an
\* unresolved output name gives markdown output.
C5_PairedDefault ==
    (Configured /\ NoExplicitTo /\ ftdetect(args.output.name) = None) =>
        /\ argv.input_file = notes_md => outformat = "notebook"
        /\ (argv.input_file = notes_ipynb /\ informat = "notebook")
              => outformat = "markdown"

\* C5 amended: with no --to (and no --reverse) and an unresolved output
\* name the output is notebook format for notes.md and for notes.ipynb
\* alike, whatever the input format resolved to.
C5_FixedDefault ==
    (Configured /\ NoExplicitTo /\ ftdetect(args.output.name) = None) =>
        /\ argv.input_file = notes_md => outformat = "notebook"
        /\ argv.input_file = notes_ipynb => outformat = "notebook"

C5_Witness ==
    /\ Configured
    /\ NoExplicitTo
    /\ argv.input_file = notes_ipynb
    /\ argv.from = None
    /\ argv.output = NoPath
    /\ informat = "notebook"
    /\ outformat = "notebook"
    /\ pc = "done"

Ops(l) == [i \in 1..Len(l) |-> l[i].op]

IsPrefix(a, b) == Len(a) <= Len(b) /\ SubSeq(b, 1, Len(a)) = a

Pipeline(knitted, ran) ==
    (IF knitted THEN <<"knit">> ELSE <<>>) \o <<"read">>
    \o (IF ran THEN <<"run">> ELSE <<>>) \o <<"write">>

Terminated == pc \in {"done", "exit", "failed"}

\* C3: the steps happen in the order knit (only if requested), read, run
\* (only if requested), write, each at most once; a completed conversion
\* has exactly one read and ends with exactly one write; a failed step is
\* the last step.
C3_StepOrder ==
    \E knitted \in BOOLEAN :
        /\ knitted => argv.knit # <<>>
        /\ IsPrefix(Ops(log), Pipeline(knitted, argv.run))
        /\ pc = "done" =>
              /\ Ops(log) = Pipeline(knitted, argv.run)
              /\ \A i \in 1..Len(log) : log[i].ok
        /\ \A i \in 1..Len(log) :
              ~log[i].ok => (i = Len(log) /\ pc = "failed"
                             /\ written = NothingWritten)

C3_Witness ==
    /\ pc = "done"
    /\ Ops(log) = <<"knit", "read", "run", "write">>

\* C6: with --strip a conversion to markdown emits no output content, also
\* with --figures and with a custom --template.
C6_StripWins ==
    (pc = "done" /\ argv.strip /\ written.format = "markdown") =>
        \A i \in 1..Len(written.items) : written.items[i].kind # "output"

C6_Witness ==
    /\ pc = "done"
    /\ argv.strip
    /\ argv.figures
    /\ argv.template = "custom.tpl"
    /\ written.format = "markdown"
    /\ \E i \in 1..Len(notebook) : notebook[i].outputs # <<>>

SuppliedPrecode ==
    Join(<<"\n">>,
         argv.precode \o (IF argv.rmagic THEN <<<<"%load_ext rmagic">>>> ELSE <<>>))

PrecodeCellFirst ==
    /\ notebook # <<>>
    /\ notebook[1].cell_type = "code"
    /\ notebook[1].source = SuppliedPrecode

C8_InstallHint ==
    \A i \in 1..Len(log) :
        (log[i].op = "run" /\ log[i].arg = "ImportError") =>
            /\ pc = "failed"
            /\ err.kind = "MissingExternalTool"
            /\ err.message = InstallHint
            /\ written = NothingWritten

\* C9: when cli() is over, on whatever path, no file handle acquired for
\* the conversion (the named input file, the named output file, the knit
\* output stream) is still open.
C9_HandlesClosed ==
    Terminated =>
        /\ argv.input_file # NoPath => files.input # "open"
        /\ argv.output # NoPath => files.output # "open"
        /\ files.knit # "open"

RequestedChunkOptions ==
    IF Len(argv.knit) = 1 THEN "eval=FALSE" ELSE argv.knit[2]

\* C10: when --knit is given, knit runs with 'eval=FALSE' or with exactly
\* the value given, whatever the input format; the reader reads the knit
\* output stream and never the original input; format detection uses the
\* original input file's name.
C10_KnitWhenRequested ==
    (argv.knit # <<>> /\ pc \in {"configure", "read", "run", "write", "done"}) =>
        /\ log # <<>>
        /\ log[1] = Step("knit", RequestedChunkOptions, TRUE)
        /\ \A i \in 1..Len(log) : log[i].op = "read" => log[i].arg = "knit"
        /\ (Configured /\ ~argv.reverse /\ argv.from = None) =>
              informat = Or(ftdetect(args.input_file.name), "markdown")

====
